---- MODULE Spec2Model ----
(***************************************************************************)
(* A model of tools/demikernel_ci_new.py: the CI pipeline driver that      *)
(* launches paired remote commands on a server and a client host, waits    *)
(* for them, reduces their exit codes to a verdict per stage and gates     *)
(* later stages on earlier ones.                                           *)
(***************************************************************************)
EXTENDS Integers, Sequences, FiniteSets, TLC

\* ------------------------------------------------------------------ bounds

\* Largest number of system tests the catalog holds for one runtime.
MaxTests == 2

\* Exit codes a remote command may end with (0 is success).
ExitCodes == {0, 1, 2}

\* Runtime variants: the three privileged ones, the two with integration
\* tests, and one that is neither.
Libos == {"catnap", "catmem", "catnip", "catpowder", "catloop", "catcollar"}

ServerHost == "hostA"

\* The client may be the same machine as the server.
ClientHosts == {"hostA", "hostB"}

\* Names of the system tests a catalog may define, in catalog order.
CatalogNames == <<"tcp_echo", "tcp_close", "udp_ping_pong", "pipe_open", "tcp_wait", "udp_push_pop">>

\* The catalog of a runtime that defines n system tests.
Catalog(n) == SubSeq(CatalogNames, 1, IF n < Len(CatalogNames) THEN n ELSE Len(CatalogNames))

\* The values --test-system may take: absent, "all", or one test name.
Selectors == {"", "all"} \cup {CatalogNames[i] : i \in 1..Len(Catalog(MaxTests))}

\* The five run modes of the pipe integration test, in the order of the calls.
RunModes == <<"standalone", "push-wait", "pop-wait", "push-wait-async", "pop-wait-async">>

\* Popen.returncode before the process has been waited on.
None == 256

VARIABLES
    libos,        \* --libos
    is_debug,     \* --debug
    server,       \* --server
    client,       \* --client
    enable_nfs,   \* --enable-nfs
    test_unit,    \* --test-unit
    test_system,  \* --test-system ("" when absent)
    pc,           \* position of run_pipeline / main
    bpc,          \* position inside the active stage builder
    mode,         \* index into RunModes of the active pipe integration call
    status,       \* run_pipeline's status dict
    stages,       \* the stage builders entered so far, in order
    cur,          \* test_name and all_pass of the active stage builder
    jobs,         \* the builder's jobs dict, in insertion order
    wstatus,      \* wait_jobs2's status list
    ret,          \* value returned by wait_and_report
    trace,        \* launches, sleeps and waits of the active builder, in order
    npid,         \* number of processes launched so far
    written,      \* log files written so far, in order
    fs,           \* the log directory, and the generations its .old sibling holds
    ci_map,       \* the test names the catalog holds for libos
    test_names,   \* the system tests selected
    ti,           \* index into test_names of the next system test
    executed,     \* system tests executed so far with their verdicts, in order
    exit_code     \* the exit code of the process (None while running)

vars == <<libos, is_debug, server, client, enable_nfs, test_unit, test_system,
          pc, bpc, mode, status, stages, cur, jobs, wstatus, ret, trace, npid,
          written, fs, ci_map, test_names, ti, executed, exit_code>>

args == <<libos, is_debug, server, client, enable_nfs, test_unit, test_system>>

\* ----------------------------------------------------------------- helpers

\* d[key] = value on a Python dict kept as a sequence of entries.
DictPut(d, key, value) ==
    IF \E i \in 1..Len(d) : d[i].name = key
    THEN [i \in 1..Len(d) |-> IF d[i].name = key THEN [name |-> key, proc |-> value] ELSE d[i]]
    ELSE Append(d, [name |-> key, proc |-> value])

\* status[key] = value on run_pipeline's status dict.
StatusPut(st, key, value) ==
    [k \in DOMAIN st \cup {key} |-> IF k = key THEN value ELSE st[k]]

\* status.values()
Values(st) == {st[k] : k \in DOMAIN st}

\* subprocess.Popen(ssh_cmd, ...): a running process, its exit code unset.
Popen(pid, host, role, kind, sudo) ==
    [pid |-> pid, host |-> host, role |-> role, kind |-> kind, sudo |-> sudo,
     returncode |-> None]

remote_checkout(pid, host, role) == Popen(pid, host, role, "checkout", FALSE)

remote_compile(pid, host, role) == Popen(pid, host, role, "compile", FALSE)

remote_run(pid, host, role, target, is_sudo) == Popen(pid, host, role, target, is_sudo)

remote_cleanup(pid, host, role, is_sudo) == Popen(pid, host, role, "cleanup", is_sudo)

\* IsSudo with catloop forgotten.
IsSudo_NoCatloop == libos = "catnip" \/ libos = "catpowder"

IsSudo == libos = "catnip" \/ libos = "catpowder" \/ libos = "catloop"

Event(ev, role, pid) == [ev |-> ev, role |-> role, pid |-> pid]

\* Passed with the any-pass policy ignored: both jobs must pass.
Passed_AlwaysAll(st, all_pass) ==
    IF Len(st) > 1
    THEN st[1][2] = 0 /\ st[2][2] = 0
    ELSE st[1][2] = 0

\* The reduction of wait_and_report: exit codes to a verdict.
Passed(st, all_pass) ==
    IF Len(st) > 1
    THEN IF all_pass
         THEN st[1][2] = 0 /\ st[2][2] = 0
         ELSE st[1][2] = 0 \/ st[2][2] = 0
    ELSE st[1][2] = 0

\* Clear that leaves the dict as it is.
Clear_Nothing(d) == d

\* jobs.clear()
Clear(d) == <<>>

\* The two log files wait_jobs2 writes for a job.
LogFiles(job_name) == <<job_name \o ".stdout.txt", job_name \o ".stderr.txt">>

\* ------------------------------------------------------------------- Init

Init ==
    /\ libos \in Libos
    /\ is_debug \in BOOLEAN
    /\ server = ServerHost
    /\ client \in ClientHosts
    /\ enable_nfs \in BOOLEAN
    /\ test_unit \in BOOLEAN
    /\ test_system \in Selectors
    /\ pc = "rotate"
    /\ bpc = "idle"
    /\ mode = 0
    /\ status = <<>>
    /\ stages = <<>>
    /\ cur = [test_name |-> "", all_pass |-> TRUE]
    /\ jobs = <<>>
    /\ wstatus = <<>>
    /\ ret = FALSE
    /\ trace = <<>>
    /\ npid = 0
    /\ written = <<>>
    /\ fs \in [log : {"absent", "previous"}, old : {{}, {"older"}}]
    /\ ci_map = <<>>
    /\ test_names = <<>>
    /\ ti = 0
    /\ executed = <<>>
    /\ exit_code = None

\* ---------------------------------------------------------- stage builders

\* A stage builder creates its jobs dict and launches the server job.
LaunchServer(stage, test_name, all_pass, job_name, proc) ==
    /\ cur' = [test_name |-> test_name, all_pass |-> all_pass]
    /\ stages' = Append(stages, stage)
    /\ jobs' = DictPut(<<>>, job_name, proc)
    /\ wstatus' = <<>>
    /\ trace' = <<Event("launch", "server", npid + 1)>>
    /\ npid' = npid + 1

\* A stage builder launches the client job into its jobs dict.
LaunchClient(job_name, proc) ==
    /\ jobs' = DictPut(jobs, job_name, proc)
    /\ trace' = Append(trace, Event("launch", "client", npid + 1))
    /\ npid' = npid + 1

\* time.sleep(delay)
Sleep == trace' = Append(trace, Event("sleep", "none", 0))

CompileTestName == "compile-" \o (IF is_debug THEN "debug" ELSE "release")

\* PipeTestName without the run mode.
PipeTestName_NoMode(run_mode) == "integration-test"

PipeTestName(run_mode) == "integration-test" \o "-" \o run_mode

\* Rotate without the rmtree: move() into a directory that exists puts the
\* log directory inside it, next to what was there.
Rotate_KeepOld(f) ==
    IF f.log # "absent"
    THEN [log |-> "fresh", old |-> f.old \cup {f.log}]
    ELSE [log |-> "fresh", old |-> f.old]

\* The log directory and the generations kept in its .old sibling after
\* "if isdir(log_directory): ... rmtree(old_dir) ... move(...)" and mkdir.
Rotate(f) ==
    IF f.log # "absent"
    THEN [log |-> "fresh", old |-> {f.log}]
    ELSE [log |-> "fresh", old |-> f.old]

\* run_pipeline, log directory rotation.
RotateLogs ==
    /\ pc = "rotate"
    /\ fs' = Rotate(fs)
    /\ pc' = "checkout"
    /\ UNCHANGED <<args, bpc, mode, status, stages, cur, jobs, wstatus, ret, trace,
                   npid, written, ci_map, test_names, ti, executed, exit_code>>

\* job_checkout, the server job.
JobCheckoutServer ==
    /\ pc = "checkout" /\ bpc = "idle"
    /\ LaunchServer("job_checkout", "checkout", TRUE,
                    "checkout" \o "-server-" \o server,
                    remote_checkout(npid + 1, server, "server"))
    /\ bpc' = "client"
    /\ UNCHANGED <<args, pc, mode, status, ret, written, fs, ci_map, test_names, ti,
                   executed, exit_code>>

\* job_checkout, the client job unless the tree is shared.
JobCheckoutClient ==
    /\ pc = "checkout" /\ bpc = "client"
    /\ IF ~enable_nfs
       THEN LaunchClient(cur.test_name \o "-client-" \o client,
                         remote_checkout(npid + 1, client, "client"))
       ELSE UNCHANGED <<jobs, trace, npid>>
    /\ bpc' = "wait"
    /\ UNCHANGED <<args, pc, mode, status, stages, cur, wstatus, ret, written, fs,
                   ci_map, test_names, ti, executed, exit_code>>

\* job_compile, the server job.
JobCompileServer ==
    /\ pc = "compile" /\ bpc = "idle"
    /\ LaunchServer("job_compile", CompileTestName, TRUE,
                    CompileTestName \o "-server-" \o server,
                    remote_compile(npid + 1, server, "server"))
    /\ bpc' = "client"
    /\ UNCHANGED <<args, pc, mode, status, ret, written, fs, ci_map, test_names, ti,
                   executed, exit_code>>

\* JobCompileClient launching on the client whatever enable_nfs says.
JobCompileClient_Always ==
    /\ pc = "compile" /\ bpc = "client"
    /\ LaunchClient(cur.test_name \o "-client-" \o client,
                    remote_compile(npid + 1, client, "client"))
    /\ bpc' = "wait"
    /\ UNCHANGED <<args, pc, mode, status, stages, cur, wstatus, ret, written, fs,
                   ci_map, test_names, ti, executed, exit_code>>

\* job_compile, the client job unless the tree is shared.
JobCompileClient ==
    /\ pc = "compile" /\ bpc = "client"
    /\ IF ~enable_nfs
       THEN LaunchClient(cur.test_name \o "-client-" \o client,
                         remote_compile(npid + 1, client, "client"))
       ELSE UNCHANGED <<jobs, trace, npid>>
    /\ bpc' = "wait"
    /\ UNCHANGED <<args, pc, mode, status, stages, cur, wstatus, ret, written, fs,
                   ci_map, test_names, ti, executed, exit_code>>

\* job_test_unit_rust: one job, on the server.
JobTestUnitRust ==
    /\ pc = "unit" /\ bpc = "idle"
    /\ LaunchServer("job_test_unit_rust", "unit-test", TRUE,
                    "unit-test" \o "-server-" \o server,
                    remote_run(npid + 1, server, "server", "test-unit-rust", IsSudo))
    /\ bpc' = "wait"
    /\ UNCHANGED <<args, pc, mode, status, ret, written, fs, ci_map, test_names, ti,
                   executed, exit_code>>

\* job_test_integration_tcp_rust, the server job.
JobTestIntegrationTcpServer ==
    /\ pc = "integ_tcp" /\ bpc = "idle"
    /\ LaunchServer("job_test_integration_tcp_rust", "integration-test", TRUE,
                    "integration-test" \o "-server-" \o server,
                    remote_run(npid + 1, server, "server", "tcp-test", IsSudo))
    /\ bpc' = "client"
    /\ UNCHANGED <<args, pc, mode, status, ret, written, fs, ci_map, test_names, ti,
                   executed, exit_code>>

\* JobTestIntegrationTcpClient with the client launch delayed as in the pipe test.
JobTestIntegrationTcpClient_Delayed ==
    /\ pc = "integ_tcp" /\ bpc = "client"
    /\ jobs' = DictPut(jobs, cur.test_name \o "-client-" \o client,
                       remote_run(npid + 1, client, "client", "tcp-test", IsSudo))
    /\ trace' = trace \o <<Event("sleep", "none", 0), Event("launch", "client", npid + 1)>>
    /\ npid' = npid + 1
    /\ bpc' = "wait"
    /\ UNCHANGED <<args, pc, mode, status, stages, cur, wstatus, ret, written, fs,
                   ci_map, test_names, ti, executed, exit_code>>

\* job_test_integration_tcp_rust, the client job.
JobTestIntegrationTcpClient ==
    /\ pc = "integ_tcp" /\ bpc = "client"
    /\ LaunchClient(cur.test_name \o "-client-" \o client,
                    remote_run(npid + 1, client, "client", "tcp-test", IsSudo))
    /\ bpc' = "wait"
    /\ UNCHANGED <<args, pc, mode, status, stages, cur, wstatus, ret, written, fs,
                   ci_map, test_names, ti, executed, exit_code>>

\* PipeAfterServer without the delay before the client launch.
PipeAfterServer_NoDelay(run_mode) == IF run_mode # "standalone" THEN "client" ELSE "wait"

\* Where job_test_integration_pipe_rust goes after the server launch.
PipeAfterServer(run_mode) == IF run_mode # "standalone" THEN "sleep" ELSE "wait"

\* job_test_integration_pipe_rust, the server job.
JobTestIntegrationPipeServer ==
    /\ pc = "integ_pipe" /\ bpc = "idle"
    /\ LaunchServer("job_test_integration_pipe_rust", PipeTestName(RunModes[mode]), TRUE,
                    PipeTestName(RunModes[mode]) \o "-server-" \o server,
                    remote_run(npid + 1, server, "server", "pipe-test", IsSudo))
    /\ bpc' = PipeAfterServer(RunModes[mode])
    /\ UNCHANGED <<args, pc, mode, status, ret, written, fs, ci_map, test_names, ti,
                   executed, exit_code>>

\* job_test_integration_pipe_rust, the delay before the client launch.
JobTestIntegrationPipeSleep ==
    /\ pc = "integ_pipe" /\ bpc = "sleep"
    /\ Sleep
    /\ bpc' = "client"
    /\ UNCHANGED <<args, pc, mode, status, stages, cur, jobs, wstatus, ret, npid, written,
                   fs, ci_map, test_names, ti, executed, exit_code>>

\* job_test_integration_pipe_rust, the client job.
JobTestIntegrationPipeClient ==
    /\ pc = "integ_pipe" /\ bpc = "client"
    /\ LaunchClient(cur.test_name \o "-client-" \o client,
                    remote_run(npid + 1, client, "client", "pipe-test", IsSudo))
    /\ bpc' = "wait"
    /\ UNCHANGED <<args, pc, mode, status, stages, cur, wstatus, ret, written, fs,
                   ci_map, test_names, ti, executed, exit_code>>

\* JobCleanupServer with the server launch put under "if not enable_nfs" too.
JobCleanupServer_UnlessNfs ==
    /\ pc = "cleanup" /\ bpc = "idle"
    /\ IF ~enable_nfs
       THEN LaunchServer("job_cleanup", "cleanup", TRUE,
                         "cleanup" \o "-server-" \o server,
                         remote_cleanup(npid + 1, server, "server", IsSudo))
       ELSE /\ cur' = [test_name |-> "cleanup", all_pass |-> TRUE]
            /\ stages' = Append(stages, "job_cleanup")
            /\ jobs' = <<>>
            /\ wstatus' = <<>>
            /\ trace' = <<>>
            /\ npid' = npid
    /\ bpc' = "client"
    /\ UNCHANGED <<args, pc, mode, status, ret, written, fs, ci_map, test_names, ti,
                   executed, exit_code>>

\* job_cleanup, the server job.
JobCleanupServer ==
    /\ pc = "cleanup" /\ bpc = "idle"
    /\ LaunchServer("job_cleanup", "cleanup", TRUE,
                    "cleanup" \o "-server-" \o server,
                    remote_cleanup(npid + 1, server, "server", IsSudo))
    /\ bpc' = "client"
    /\ UNCHANGED <<args, pc, mode, status, ret, written, fs, ci_map, test_names, ti,
                   executed, exit_code>>

\* job_cleanup, the client job unless the tree is shared.
JobCleanupClient ==
    /\ pc = "cleanup" /\ bpc = "client"
    /\ IF ~enable_nfs
       THEN LaunchClient(cur.test_name \o "-client-" \o client \o "-",
                         remote_cleanup(npid + 1, client, "client", IsSudo))
       ELSE UNCHANGED <<jobs, trace, npid>>
    /\ bpc' = "wait"
    /\ UNCHANGED <<args, pc, mode, status, stages, cur, wstatus, ret, written, fs,
                   ci_map, test_names, ti, executed, exit_code>>

\* job_test_system_rust, the server job (called back from BaseTest.execute,
\* which passes the all_pass policy the catalog gives for the test).
JobTestSystemServer ==
    /\ pc = "system_loop" /\ bpc = "idle"
    /\ \E all_pass \in BOOLEAN :
          LaunchServer("job_test_system_rust", test_names[ti], all_pass,
                       test_names[ti] \o "-server-" \o server,
                       remote_run(npid + 1, server, "server", "test-system-rust", IsSudo))
    /\ bpc' = "sleep"
    /\ UNCHANGED <<args, pc, mode, status, ret, written, fs, ci_map, test_names, ti,
                   executed, exit_code>>

\* job_test_system_rust, the delay before the client launch.
JobTestSystemSleep ==
    /\ pc = "system_loop" /\ bpc = "sleep"
    /\ Sleep
    /\ bpc' = "client"
    /\ UNCHANGED <<args, pc, mode, status, stages, cur, jobs, wstatus, ret, npid, written,
                   fs, ci_map, test_names, ti, executed, exit_code>>

\* job_test_system_rust, the client job.
JobTestSystemClient ==
    /\ pc = "system_loop" /\ bpc = "client"
    /\ LaunchClient(cur.test_name \o "-client-" \o client,
                    remote_run(npid + 1, client, "client", "test-system-rust", IsSudo))
    /\ bpc' = "wait"
    /\ UNCHANGED <<args, pc, mode, status, stages, cur, wstatus, ret, written, fs,
                   ci_map, test_names, ti, executed, exit_code>>

\* --------------------------------------------------------- waiter / reporter

\* NextJob iterating the dict from its last entry.
NextJob_Reverse(d, st) == Len(d) - Len(st)

\* The job wait_jobs2 waits on next: dict iteration is insertion order.
NextJob(d, st) == Len(st) + 1

\* wait_jobs2, one iteration: wait for the job, note its exit code, write its logs.
WaitJobs2 ==
    /\ bpc = "wait"
    /\ Len(wstatus) < Len(jobs)
    /\ LET i == NextJob(jobs, wstatus) IN
       \E rc \in ExitCodes :
          /\ jobs' = [jobs EXCEPT ![i].proc.returncode = rc]
          /\ wstatus' = Append(wstatus, <<jobs[i].proc.pid, rc>>)
          /\ trace' = Append(trace, Event("wait", jobs[i].proc.role, jobs[i].proc.pid))
          /\ written' = written \o LogFiles(jobs[i].name)
    /\ UNCHANGED <<args, pc, bpc, mode, status, stages, cur, ret, npid, fs, ci_map,
                   test_names, ti, executed, exit_code>>

\* wait_jobs2, an iteration whose job never exits: communicate() does not
\* return, and there is no timeout.
WaitJobs2Blocks ==
    /\ bpc = "wait"
    /\ Len(wstatus) < Len(jobs)
    /\ bpc' = "blocked"
    /\ UNCHANGED <<args, pc, mode, status, stages, cur, jobs, wstatus, ret, trace, npid,
                   written, fs, ci_map, test_names, ti, executed, exit_code>>

\* wait_jobs2 after its loop (the jobs are cleared), then wait_and_report's
\* reduction of the exit codes.
WaitAndReport ==
    /\ bpc = "wait"
    /\ Len(wstatus) = Len(jobs)
    /\ jobs' = Clear(jobs)
    /\ ret' = Passed(wstatus, cur.all_pass)
    /\ bpc' = "ret"
    /\ UNCHANGED <<args, pc, mode, status, stages, cur, wstatus, trace, npid, written, fs,
                   ci_map, test_names, ti, executed, exit_code>>

\* ------------------------------------------------------------- run_pipeline

\* Step4 with the cleanup stage reached only when checkout passed.
Step4_CleanupGated(st) ==
    IF test_system # "" /\ (st["checkout"] /\ st["compile"])
    THEN "system"
    ELSE IF st["checkout"] THEN "cleanup" ELSE "return"

\* Step4 gated on checkout alone.
Step4_NoCompileGate(st) ==
    IF test_system # "" /\ st["checkout"]
    THEN "system"
    ELSE "cleanup"

\* STEP 4's guard: where run_pipeline goes once step 3 is over.
Step4(st) ==
    IF test_system # "" /\ (st["checkout"] /\ st["compile"])
    THEN "system"
    ELSE "cleanup"

\* Step3 never running the unit tests.
Step3_NoUnit(st) == Step4(st)

\* Step3 without its gate on checkout and compile.
Step3_Ungated(st) == IF test_unit THEN "unit" ELSE Step4(st)

\* STEP 3's guard: where run_pipeline goes once step 2 is over.
Step3(st) ==
    IF test_unit /\ (st["checkout"] /\ st["compile"])
    THEN "unit"
    ELSE Step4(st)

\* Step2 retrying a failed checkout once.
Step2_RetryOnce(st) ==
    IF st["checkout"] THEN "compile"
    ELSE IF Len(stages) < 2 THEN "checkout"
    ELSE Step3(st)

\* STEP 2's guard: where run_pipeline goes once checkout is recorded.
Step2(st) == IF st["checkout"] THEN "compile" ELSE Step3(st)

\* IntegrationFor gated on the unit tests having passed.
IntegrationFor_IfUnitPassed(st) ==
    IF ~st["unit_tests"] THEN Step4(st)
    ELSE IF libos = "catnap" THEN "integ_tcp"
    ELSE IF libos = "catmem" THEN "integ_pipe"
    ELSE Step4(st)

\* IntegrationFor with the two runtimes swapped.
IntegrationFor_Swapped(st) ==
    IF libos = "catmem" THEN "integ_tcp"
    ELSE IF libos = "catnap" THEN "integ_pipe"
    ELSE Step4(st)

\* The integration test that follows the unit tests, by runtime.
IntegrationFor(st) ==
    IF libos = "catnap" THEN "integ_tcp"
    ELSE IF libos = "catmem" THEN "integ_pipe"
    ELSE Step4(st)

\* status["checkout"] = job_checkout(...)
RecordCheckout ==
    /\ pc = "checkout" /\ bpc = "ret"
    /\ status' = StatusPut(status, "checkout", ret)
    /\ pc' = Step2(status')
    /\ bpc' = "idle"
    /\ UNCHANGED <<args, mode, stages, cur, jobs, wstatus, ret, trace, npid, written, fs,
                   ci_map, test_names, ti, executed, exit_code>>

\* status["compile"] = job_compile(...)
RecordCompile ==
    /\ pc = "compile" /\ bpc = "ret"
    /\ status' = StatusPut(status, "compile", ret)
    /\ pc' = Step3(status')
    /\ bpc' = "idle"
    /\ UNCHANGED <<args, mode, stages, cur, jobs, wstatus, ret, trace, npid, written, fs,
                   ci_map, test_names, ti, executed, exit_code>>

\* status["unit_tests"] = job_test_unit_rust(...)
RecordUnitTests ==
    /\ pc = "unit" /\ bpc = "ret"
    /\ status' = StatusPut(status, "unit_tests", ret)
    /\ pc' = IntegrationFor(status')
    /\ mode' = IF pc' = "integ_pipe" THEN 1 ELSE mode
    /\ bpc' = "idle"
    /\ UNCHANGED <<args, stages, cur, jobs, wstatus, ret, trace, npid, written, fs,
                   ci_map, test_names, ti, executed, exit_code>>

\* status["integration_tests"] = job_test_integration_tcp_rust(...)
RecordIntegrationTcp ==
    /\ pc = "integ_tcp" /\ bpc = "ret"
    /\ status' = StatusPut(status, "integration_tests", ret)
    /\ pc' = Step4(status')
    /\ bpc' = "idle"
    /\ UNCHANGED <<args, mode, stages, cur, jobs, wstatus, ret, trace, npid, written, fs,
                   ci_map, test_names, ti, executed, exit_code>>

\* RecordIntegrationPipe keeping a failure of an earlier mode.
RecordIntegrationPipe_Accumulates ==
    /\ pc = "integ_pipe" /\ bpc = "ret"
    /\ status' = StatusPut(status, "integration_tests",
                           ret /\ (mode = 1 \/ status["integration_tests"]))
    /\ IF mode < Len(RunModes)
       THEN mode' = mode + 1 /\ pc' = pc
       ELSE mode' = 0 /\ pc' = Step4(status')
    /\ bpc' = "idle"
    /\ UNCHANGED <<args, stages, cur, jobs, wstatus, ret, trace, npid, written, fs,
                   ci_map, test_names, ti, executed, exit_code>>

\* status["integration_tests"] = job_test_integration_pipe_rust(..., run_mode, ...),
\* five calls in a row.
RecordIntegrationPipe ==
    /\ pc = "integ_pipe" /\ bpc = "ret"
    /\ status' = StatusPut(status, "integration_tests", ret)
    /\ IF mode < Len(RunModes)
       THEN mode' = mode + 1 /\ pc' = pc
       ELSE mode' = 0 /\ pc' = Step4(status')
    /\ bpc' = "idle"
    /\ UNCHANGED <<args, stages, cur, jobs, wstatus, ret, trace, npid, written, fs,
                   ci_map, test_names, ti, executed, exit_code>>

\* get_tests_to_run / the selector itself: the system tests to run.
TestsToRun(catalog) == IF test_system = "all" THEN catalog ELSE <<test_system>>

\* The catalogs the file may hold: any that defines the test the selector names.
Catalogs ==
    {Catalog(n) : n \in {m \in 0..MaxTests :
        test_system \in {"", "all"} \/ \E i \in 1..Len(Catalog(m)) : Catalog(m)[i] = test_system}}

\* create_scaffolding, get_ci_map, get_tests_to_run: the catalog is read.
GetCiMap ==
    /\ pc = "system" /\ bpc = "idle"
    /\ \E catalog \in Catalogs :
          /\ ci_map' = catalog
          /\ test_names' = TestsToRun(catalog)
    /\ ti' = 1
    /\ pc' = IF Len(test_names') > 0 THEN "system_loop" ELSE "cleanup"
    /\ UNCHANGED <<args, bpc, mode, status, stages, cur, jobs, wstatus, ret, trace, npid,
                   written, fs, executed, exit_code>>

\* get_ci_map raises (the catalog file is missing or malformed): the exception
\* leaves run_pipeline and main, and the interpreter exits with 1.
GetCiMapRaises ==
    /\ pc = "system" /\ bpc = "idle"
    /\ pc' = "aborted"
    /\ exit_code' = 1
    /\ UNCHANGED <<args, bpc, mode, status, stages, cur, jobs, wstatus, ret, trace, npid,
                   written, fs, ci_map, test_names, ti, executed>>

\* TestKey recording every system test under one shared key.
TestKey_Shared(test_name) == "system_tests"

\* The key run_pipeline records a system test under.
TestKey(test_name) == test_name

\* status[test_name] = t.execute(), and the loop goes on.
RecordSystemTest ==
    /\ pc = "system_loop" /\ bpc = "ret"
    /\ status' = StatusPut(status, TestKey(test_names[ti]), ret)
    /\ executed' = Append(executed, [name |-> test_names[ti], passed |-> ret])
    /\ ti' = ti + 1
    /\ pc' = IF ti < Len(test_names) THEN pc ELSE "cleanup"
    /\ bpc' = "idle"
    /\ UNCHANGED <<args, mode, stages, cur, jobs, wstatus, ret, trace, npid, written, fs,
                   ci_map, test_names, exit_code>>

\* status["cleanup"] = job_cleanup(...); return status
RecordCleanup ==
    /\ pc = "cleanup" /\ bpc = "ret"
    /\ status' = StatusPut(status, "cleanup", ret)
    /\ pc' = "return"
    /\ bpc' = "idle"
    /\ UNCHANGED <<args, mode, stages, cur, jobs, wstatus, ret, trace, npid, written, fs,
                   ci_map, test_names, ti, executed, exit_code>>

\* ExitCodeFor looking at the cleanup stage alone.
ExitCodeFor_CleanupOnly(st) == IF ~st["cleanup"] THEN (-1) % 256 ELSE 0

\* The exit code main gives for a status dict; sys.exit(-1) is exit code 255.
ExitCodeFor(st) == IF FALSE \in Values(st) THEN (-1) % 256 ELSE 0

\* main, after run_pipeline returned.
Main ==
    /\ pc = "return"
    /\ exit_code' = ExitCodeFor(status)
    /\ pc' = "exited"
    /\ UNCHANGED <<args, bpc, mode, status, stages, cur, jobs, wstatus, ret, trace, npid,
                   written, fs, ci_map, test_names, ti, executed>>

Next ==
    \/ RotateLogs
    \/ JobCheckoutServer
    \/ JobCheckoutClient
    \/ JobCompileServer
    \/ JobCompileClient
    \/ JobTestUnitRust
    \/ JobTestIntegrationTcpServer
    \/ JobTestIntegrationTcpClient
    \/ JobTestIntegrationPipeServer
    \/ JobTestIntegrationPipeSleep
    \/ JobTestIntegrationPipeClient
    \/ JobTestSystemServer
    \/ JobTestSystemSleep
    \/ JobTestSystemClient
    \/ JobCleanupServer
    \/ JobCleanupClient
    \/ WaitJobs2
    \/ WaitJobs2Blocks
    \/ WaitAndReport
    \/ RecordCheckout
    \/ RecordCompile
    \/ RecordUnitTests
    \/ RecordIntegrationTcp
    \/ RecordIntegrationPipe
    \/ GetCiMap
    \/ GetCiMapRaises
    \/ RecordSystemTest
    \/ RecordCleanup
    \/ Main

Spec == Init /\ [][Next]_vars

\* The one thread of control keeps taking its next step while it has one; a
\* wait on a job that never exits is a step to "blocked", which has none.
FairSpec == Spec /\ WF_vars(Next)

\* -------------------------------------------------------------- properties

\* Positions in the active builder's trace, by kind of event.
LaunchIdx(role) == {i \in 1..Len(trace) : trace[i].ev = "launch" /\ trace[i].role = role}

WaitIdx == {i \in 1..Len(trace) : trace[i].ev = "wait"}

SleepIdx == {i \in 1..Len(trace) : trace[i].ev = "sleep"}

\* The stage builder that is active or was active last.
LastStage == IF Len(stages) > 0 THEN stages[Len(stages)] ELSE "none"

Entered(stage) == \E i \in 1..Len(stages) : stages[i] = stage

Finished == pc \in {"return", "exited"}

StageKeys == {"checkout", "compile", "unit_tests", "integration_tests", "cleanup"}

\* C1: wait_and_report's verdict: with one job, true iff its exit code is 0;
\* with two jobs and all_pass, true iff both are 0; with two jobs and not
\* all_pass, true iff at least one is 0.
ThmC1_Verdict ==
    bpc = "ret" =>
        /\ Len(wstatus) = 1 => (ret <=> wstatus[1][2] = 0)
        /\ Len(wstatus) = 2 /\ cur.all_pass =>
              (ret <=> (wstatus[1][2] = 0 /\ wstatus[2][2] = 0))
        /\ Len(wstatus) = 2 /\ ~cur.all_pass =>
              (ret <=> (wstatus[1][2] = 0 \/ wstatus[2][2] = 0))

\* C1 witness: an any-pass pair whose server failed and whose client passed.
WitC1_AnyPassOneFailed ==
    /\ bpc = "ret" /\ Len(wstatus) = 2 /\ ~cur.all_pass
    /\ wstatus[1][2] # 0 /\ wstatus[2][2] = 0 /\ ret

\* C2: when checkout records false, the final status mapping holds the
\* checkout and cleanup keys and nothing else: no compile, unit_tests,
\* integration_tests or system-test key, whatever tests were requested.
ThmC2_CheckoutGate ==
    /\ ("checkout" \in DOMAIN status /\ ~status["checkout"]) =>
          DOMAIN status \subseteq {"checkout", "cleanup"}
    /\ (Finished /\ ~status["checkout"]) => DOMAIN status = {"checkout", "cleanup"}

\* C2 witness: a finished run whose checkout failed with every test requested.
WitC2_CheckoutFailed ==
    /\ pc = "exited" /\ ~status["checkout"]
    /\ test_unit /\ test_system = "all" /\ libos = "catnap"

\* The cleanup stage ran as the terminal stage: it was entered once, after
\* every other stage, its server job was launched first, and it is recorded.
CleanupRanLast ==
    /\ LastStage = "job_cleanup"
    /\ Cardinality({i \in 1..Len(stages) : stages[i] = "job_cleanup"}) = 1
    /\ Len(trace) > 0 /\ trace[1] = Event("launch", "server", trace[1].pid)
    /\ "cleanup" \in DOMAIN status

\* C3 as stated: every run that ends, however it ends, has launched the
\* cleanup job as its terminal stage and recorded a cleanup entry.
CexC3_EveryRunCleansUp == pc \in {"return", "exited", "aborted"} => CleanupRanLast

\* C3 amended: every run whose remote commands all exit and that is not
\* ended by the catalog failing to load goes on until it has launched the
\* cleanup job as its terminal stage and recorded a cleanup entry,
\* independent of all recorded outcomes; a run the catalog load ends has
\* passed checkout and compile and runs no cleanup.
ThmC3_CleanupUnlessCatalogFails ==
    /\ Finished => CleanupRanLast
    /\ pc \notin {"exited", "aborted"} /\ bpc # "blocked" => ENABLED Next
    /\ pc = "aborted" =>
          /\ test_system # "" /\ status["checkout"] /\ status["compile"]
          /\ ~Entered("job_cleanup") /\ "cleanup" \notin DOMAIN status

\* C3 witness: cleanup ran last in a run whose compile failed with every
\* test requested.
WitC3_CleanupAfterFailure ==
    /\ pc = "exited" /\ CleanupRanLast
    /\ "compile" \in DOMAIN status /\ ~status["compile"]
    /\ test_unit /\ test_system # ""

\* C4: the exit code is 0 iff every value of the final status mapping is true.
ThmC4_ExitCode ==
    pc = "exited" => (exit_code = 0 <=> \A k \in DOMAIN status : status[k])

\* C4 witness: a run whose only failure is the unit tests: everything else
\* passed, and the exit code is not 0.
WitC4_OneFailure ==
    /\ pc = "exited" /\ exit_code # 0
    /\ "unit_tests" \in DOMAIN status /\ ~status["unit_tests"]
    /\ \A k \in DOMAIN status \ {"unit_tests"} : status[k]

\* C5: the unit and integration tests are attempted only if unit testing was
\* requested and checkout and compile recorded true; the system tests only
\* if a selector was given and checkout and compile recorded true; when
\* compile records false no unit_tests, integration_tests or system-test key
\* appears.
ThmC5_TestGates ==
    /\ (\/ pc \in {"unit", "integ_tcp", "integ_pipe"}
        \/ Entered("job_test_unit_rust")
        \/ Entered("job_test_integration_tcp_rust")
        \/ Entered("job_test_integration_pipe_rust")) =>
          test_unit /\ status["checkout"] /\ status["compile"]
    /\ (\/ pc \in {"system", "system_loop", "aborted"}
        \/ Entered("job_test_system_rust")) =>
          test_system # "" /\ status["checkout"] /\ status["compile"]
    /\ ("compile" \in DOMAIN status /\ ~status["compile"]) =>
          DOMAIN status \subseteq {"checkout", "compile", "cleanup"}
    /\ ("unit_tests" \in DOMAIN status \/ "integration_tests" \in DOMAIN status) =>
          test_unit /\ status["checkout"] /\ status["compile"]
    /\ DOMAIN status \ StageKeys # {} =>
          test_system # "" /\ status["checkout"] /\ status["compile"]

\* C5 witness: compile failed in a finished run that requested every test.
WitC5_CompileFailed ==
    /\ pc = "exited" /\ status["checkout"] /\ ~status["compile"]
    /\ test_unit /\ test_system = "all" /\ libos = "catmem"

\* The active builder has launched all its jobs.
Launched == bpc \in {"wait", "ret"}

\* C6: the pipe integration stage always launches the server job, first; in
\* mode standalone it launches no client job; in every other mode it launches
\* exactly one client job, after the server launch and after the delay.
ThmC6_PipeLaunches ==
    (pc = "integ_pipe" /\ bpc # "idle") =>
        /\ LaunchIdx("server") = {1}
        /\ RunModes[mode] = "standalone" => LaunchIdx("client") = {} /\ SleepIdx = {}
        /\ Cardinality(LaunchIdx("client")) <= 1
        /\ \A c \in LaunchIdx("client") : \E d \in SleepIdx : 1 < d /\ d < c
        /\ (Launched /\ RunModes[mode] # "standalone") =>
              Cardinality(LaunchIdx("client")) = 1

\* C6 witness: the pop-wait-async call has launched server and client and
\* waited on both.
WitC6_PipeAsync ==
    /\ pc = "integ_pipe" /\ bpc = "ret" /\ RunModes[mode] = "pop-wait-async"
    /\ LaunchIdx("client") = {3} /\ Len(trace) = 5

FireThenJoinStages ==
    {"job_checkout", "job_compile", "job_test_integration_tcp_rust", "job_cleanup"}

\* C7: in checkout, compile, TCP integration and cleanup the server job is
\* launched first, then the client job, and every launch comes before every
\* wait; the TCP integration stage launches both jobs with no delay between
\* them; no stage at all waits on a job before all its launches.
ThmC7_FireThenJoin ==
    /\ \A w \in WaitIdx : \A r \in {"server", "client"} : \A l \in LaunchIdx(r) : l < w
    /\ bpc \in {"client", "sleep"} => WaitIdx = {}
    /\ LastStage \in FireThenJoinStages =>
          /\ SleepIdx = {}
          /\ LaunchIdx("server") = {1}
          /\ LaunchIdx("client") \subseteq {2}
    /\ (LastStage = "job_test_integration_tcp_rust" /\ Launched) =>
          LaunchIdx("client") = {2}
    /\ (LastStage \in {"job_checkout", "job_compile", "job_cleanup"} /\ WaitIdx # {}) =>
          LaunchIdx("client") = (IF enable_nfs THEN {} ELSE {2})

\* C7 witness: the TCP integration stage launched both jobs, then waited on both.
WitC7_TcpOverlap ==
    /\ LastStage = "job_test_integration_tcp_rust" /\ bpc = "ret"
    /\ LaunchIdx("server") = {1} /\ LaunchIdx("client") = {2} /\ WaitIdx = {3, 4}

\* C8: once wait_jobs / wait_and_report has returned the job set is empty,
\* whatever the verdict, and every job launched into it was waited on
\* exactly once.
ThmC8_Drained ==
    bpc = "ret" =>
        /\ jobs = <<>>
        /\ \A r \in {"server", "client"} : \A l \in LaunchIdx(r) :
              Cardinality({w \in WaitIdx : trace[w].pid = trace[l].pid}) = 1
        /\ Cardinality(WaitIdx) = Cardinality(LaunchIdx("server") \cup LaunchIdx("client"))
        /\ Len(wstatus) = Cardinality(WaitIdx)
        /\ \A i \in 1..Len(wstatus) : \E w \in WaitIdx : trace[w].pid = wstatus[i][1]

\* C8 witness: a failed two-job stage has been drained.
WitC8_DrainedOnFailure ==
    /\ bpc = "ret" /\ ~ret /\ Len(wstatus) = 2 /\ jobs = <<>>

\* The hosts the active builder launched on, by role, while its jobs dict is
\* still filled.
HostsOf(role) == {jobs[i].proc.host : i \in {j \in 1..Len(jobs) : jobs[j].proc.role = role}}

SystemTestsRan ==
    Finished /\ test_system # "" /\ status["checkout"] /\ status["compile"]

\* The names of a sequence of test names or of executed tests.
NameSet(seq) == {seq[i] : i \in 1..Len(seq)}

\* C10 as stated: every system test executed is recorded under the key
\* test_<name>.
CexC10_KeysPrefixed ==
    SystemTestsRan =>
        \A i \in 1..Len(executed) : ("test_" \o executed[i].name) \in DOMAIN status

\* C10 amended: with selector "all" and a catalog of N tests, exactly N
\* system tests are executed, in catalog order, and exactly N keys beside
\* the stage keys appear in the final mapping, each the test's name as the
\* catalog gives it (no test_ prefix is added), each holding that test's own
\* verdict; with a specific name defined in the catalog exactly that test is
\* executed and recorded under its name.
ThmC10_SystemTestSelection ==
    SystemTestsRan =>
        /\ test_system = "all" =>
              /\ Len(executed) = Len(ci_map)
              /\ \A i \in 1..Len(executed) : executed[i].name = ci_map[i]
              /\ DOMAIN status \ StageKeys = NameSet(ci_map)
              /\ Cardinality(DOMAIN status \ StageKeys) = Len(ci_map)
        /\ test_system # "all" =>
              /\ Len(executed) = 1 /\ executed[1].name = test_system
              /\ DOMAIN status \ StageKeys = {test_system}
        /\ \A i \in 1..Len(executed) : status[executed[i].name] = executed[i].passed
        /\ Cardinality({i \in 1..Len(stages) : stages[i] = "job_test_system_rust"})
              = Len(executed)

\* C10 witness: selector "all" ran a catalog of two tests with different verdicts.
WitC10_AllOfTwo ==
    /\ pc = "exited" /\ test_system = "all" /\ Len(ci_map) = 2 /\ Len(executed) = 2
    /\ executed[1].passed /\ ~executed[2].passed
    /\ status[ci_map[1]] /\ ~status[ci_map[2]]

\* The runtimes that need raw-socket or kernel-bypass access.
Privileged == libos \in {"catnip", "catpowder", "catloop"}

\* The processes of the active builder's jobs dict.
Procs == {jobs[i].proc : i \in 1..Len(jobs)}

\* C11 as stated: every remote compile and run command carries the
\* elevation wrapper iff the runtime is privileged.
CexC11_CompileAndRunElevated ==
    \A p \in Procs : p.kind \notin {"checkout", "cleanup"} => (p.sudo <=> Privileged)

\* C11 amended: remote run and cleanup commands carry sudo -E iff the
\* runtime is catnip, catpowder or catloop; checkout and compile commands
\* never carry it; for every other runtime no command of the run carries it.
ThmC11_Privilege ==
    \A p \in Procs :
        /\ p.kind \in {"checkout", "compile"} => ~p.sudo
        /\ p.kind \notin {"checkout", "compile"} => (p.sudo <=> Privileged)
        /\ ~Privileged => ~p.sudo

\* C11 witness: on catloop the unit-test command runs under sudo -E.
WitC11_CatloopUnitTest ==
    /\ libos = "catloop" /\ LastStage = "job_test_unit_rust" /\ bpc = "wait"
    /\ \E p \in Procs : p.kind = "test-unit-rust" /\ p.sudo

\* C12: the log files of one run are pairwise distinct, two per job waited
\* on, so no job's stdout or stderr file is overwritten by another job of
\* the run, also when server and client are the same host.
ThmC12_LogFilesDistinct ==
    /\ \A i, j \in 1..Len(written) : i # j => written[i] # written[j]
    /\ Finished => Len(written) = 2 * npid

\* C12 witness: a finished catmem run on one host for both roles wrote the
\* logs of checkout, compile, the unit test, the five pipe modes and cleanup.
WitC12_OneHostAllStages ==
    /\ pc = "exited" /\ libos = "catmem" /\ test_unit /\ client = server /\ ~enable_nfs
    /\ "integration_tests" \in DOMAIN status
    /\ Len(written) >= 2 * 16

\* The number of times a stage builder was entered.
Calls(stage) == Cardinality({i \in 1..Len(stages) : stages[i] = stage})

\* C13: on catmem the pipe integration test runs once per mode, in the
\* order standalone, push-wait, pop-wait, push-wait-async, pop-wait-async,
\* whatever the earlier modes returned; each call overwrites
\* integration_tests with its own verdict, so that once the five calls are
\* over the entry holds the verdict of pop-wait-async, and it keeps it.
ThmC13_PipeModes ==
    /\ [](Entered("job_test_integration_pipe_rust") => libos = "catmem")
    /\ []((pc = "integ_pipe" /\ bpc # "idle") =>
             /\ mode \in 1..Len(RunModes)
             /\ cur.test_name = PipeTestName(RunModes[mode])
             /\ Calls("job_test_integration_pipe_rust") = mode)
    /\ []((Entered("job_test_integration_pipe_rust") /\ pc # "integ_pipe") =>
             Calls("job_test_integration_pipe_rust") = 5)
    /\ []((LastStage = "job_test_integration_pipe_rust" /\ pc # "integ_pipe") =>
             /\ cur.test_name = "integration-test-pop-wait-async"
             /\ status["integration_tests"] = ret)
    /\ [][(pc = "integ_pipe" /\ bpc = "ret") => status'["integration_tests"] = ret]_vars
    /\ [][("integration_tests" \in DOMAIN status /\ pc # "integ_pipe") =>
             /\ "integration_tests" \in DOMAIN status'
             /\ status'["integration_tests"] = status["integration_tests"]]_vars

\* C13 witness: the fourth mode failed, the fifth ran all the same and
\* passed, and its verdict is about to replace the failure.
WitC13_LastModeWins ==
    /\ pc = "integ_pipe" /\ bpc = "ret" /\ mode = 5
    /\ ~status["integration_tests"] /\ ret

\* C14: the TCP integration test runs iff the unit-test stage was attempted
\* and the runtime is catnap, the pipe integration test iff it was
\* attempted and the runtime is catmem; otherwise the final mapping has no
\* integration_tests key. When the unit test exits 0 and both TCP
\* integration jobs exit 0, unit_tests and integration_tests are recorded
\* true, and recorded entries other than integration_tests never change.
ThmC14_IntegrationByRuntime ==
    /\ [](Entered("job_test_integration_tcp_rust") =>
             Entered("job_test_unit_rust") /\ libos = "catnap")
    /\ [](Entered("job_test_integration_pipe_rust") =>
             Entered("job_test_unit_rust") /\ libos = "catmem")
    /\ [](Finished =>
             /\ Entered("job_test_integration_tcp_rust") <=>
                   (Entered("job_test_unit_rust") /\ libos = "catnap")
             /\ Entered("job_test_integration_pipe_rust") <=>
                   (Entered("job_test_unit_rust") /\ libos = "catmem")
             /\ "integration_tests" \in DOMAIN status <=>
                   (Entered("job_test_unit_rust") /\ libos \in {"catnap", "catmem"}))
    /\ []((LastStage = "job_test_unit_rust" /\ bpc = "idle") =>
             (status["unit_tests"] <=> wstatus[1][2] = 0))
    /\ []((LastStage = "job_test_integration_tcp_rust" /\ bpc = "idle") =>
             (status["integration_tests"] <=> (wstatus[1][2] = 0 /\ wstatus[2][2] = 0)))
    /\ [][\A k \in DOMAIN status \ {"integration_tests"} :
             k \in DOMAIN status' /\ status'[k] = status[k]]_vars

\* C14 witness: scenario B, a catnap run with unit tests requested in which
\* everything passed.
WitC14_ScenarioB ==
    /\ pc = "exited" /\ libos = "catnap" /\ test_unit /\ exit_code = 0
    /\ status["unit_tests"] /\ status["integration_tests"]
    /\ Calls("job_test_integration_tcp_rust") = 1

\* C15: every job set wait_and_report is called with holds one or two jobs,
\* in every stage, run and configuration, and so does the status list it
\* reduces.
ThmC15_OneOrTwoJobs ==
    /\ bpc = "wait" => Len(jobs) \in {1, 2}
    /\ bpc = "ret" => Len(wstatus) \in {1, 2}
    /\ Len(jobs) <= 2

\* C15 witness: the standalone pipe call waits on a job set of one, after
\* stages that waited on two.
WitC15_StandaloneOneJob ==
    /\ pc = "integ_pipe" /\ bpc = "wait" /\ RunModes[mode] = "standalone"
    /\ Len(jobs) = 1 /\ wstatus = <<>> /\ ~enable_nfs

\* The stage builders run_pipeline calls from straight-line code.
OnceStages ==
    {"job_checkout", "job_compile", "job_test_unit_rust",
     "job_test_integration_tcp_rust", "job_cleanup"}

\* C16 as stated: a run whose remote commands all exit ends by returning the
\* status mapping.
CexC16_AlwaysReturnsStatus == [](bpc # "blocked") => <>(pc = "exited")

\* C16 amended: a run whose remote commands all exit terminates, returning
\* the status mapping (with a checkout and a cleanup entry) unless the catalog
\* load ended it with exit code 1; no stage is retried (the straight-line
\* stages are entered at most once, the pipe test at most once per mode, the
\* system test at most once per selected test); and once a wait is blocked on
\* a command that never exits no further step is ever taken, so that no
\* later stage, cleanup included, is launched.
ThmC16_Termination ==
    /\ [](bpc # "blocked") => <>(pc \in {"exited", "aborted"})
    /\ [](pc = "exited" => {"checkout", "cleanup"} \subseteq DOMAIN status)
    /\ [](pc = "aborted" => exit_code = 1 /\ "cleanup" \notin DOMAIN status)
    /\ [](\A s \in OnceStages : Calls(s) <= 1)
    /\ [](Calls("job_test_integration_pipe_rust") <= Len(RunModes))
    /\ [](Calls("job_test_system_rust") <= Len(test_names))
    /\ [][bpc # "blocked"]_vars

\* C16 witness: a system test's wait blocked on the client after the server
\* exited; cleanup has not been entered.
WitC16_BlockedInSystemTest ==
    /\ bpc = "blocked" /\ pc = "system_loop"
    /\ Len(jobs) = 2 /\ Len(wstatus) = 1
    /\ ~Entered("job_cleanup") /\ "cleanup" \notin DOMAIN status

\* C17: a job's exit code is defined iff the job has been waited on; the
\* status list holds, in insertion order (server before client), the pid and
\* exit code of exactly the jobs waited on; every job is waited on at most
\* once, after its launch; and a job that has completed keeps its exit code
\* for as long as the job set holds it.
ThmC17_JobLifecycle ==
    /\ [](\A i \in 1..Len(jobs) : jobs[i].proc.returncode # None <=> i <= Len(wstatus))
    /\ [](\A i \in 1..Len(jobs) :
             i <= Len(wstatus) => wstatus[i] = <<jobs[i].proc.pid, jobs[i].proc.returncode>>)
    /\ [](\A i \in WaitIdx :
             /\ \E l \in 1..(i - 1) : trace[l] = Event("launch", trace[i].role, trace[i].pid)
             /\ \A j \in WaitIdx : trace[j].pid = trace[i].pid => j = i
             /\ \A j \in WaitIdx : j < i => trace[j].role = "server" /\ trace[i].role = "client")
    /\ [](bpc \in {"wait", "blocked"} => Cardinality(WaitIdx) = Len(wstatus))
    /\ [][\A i \in 1..Len(jobs) :
             jobs[i].proc.returncode # None =>
                 jobs' = <<>> \/ jobs'[i].proc.returncode = jobs[i].proc.returncode]_vars

\* C17 witness: in a job set of two the server has been waited on and has
\* its exit code, the client is still running and has none.
WitC17_ServerDoneClientRunning ==
    /\ bpc = "wait" /\ Len(jobs) = 2 /\ Len(wstatus) = 1
    /\ jobs[1].proc.role = "server" /\ jobs[1].proc.returncode = 2
    /\ jobs[2].proc.role = "client" /\ jobs[2].proc.returncode = None

\* C18: the rotation is over before any job is launched or any log file
\* written: from then on the log directory is the fresh one and its .old
\* sibling holds at most one generation; the rotation replaces what .old
\* held by the previous log directory when there was one, and nothing after
\* the rotation touches either directory.
ThmC18_RotationFirst ==
    /\ [](npid > 0 \/ written # <<>> \/ stages # <<>> => pc # "rotate")
    /\ [](pc # "rotate" => fs.log = "fresh" /\ Cardinality(fs.old) <= 1)
    /\ [][pc = "rotate" =>
             /\ npid' = 0 /\ written' = <<>>
             /\ fs'.old = (IF fs.log = "absent" THEN fs.old ELSE {fs.log})]_vars
    /\ [][pc # "rotate" => fs' = fs]_vars

\* C18 witness: the first job is launched into a fresh log directory, the
\* previous one kept as the only generation in .old.
WitC18_FirstJobAfterRotation ==
    /\ npid = 1 /\ written = <<>> /\ pc = "checkout"
    /\ fs.log = "fresh" /\ fs.old = {"previous"}

\* A requested stage left no entry in the status mapping because a gate
\* skipped it: compile, the unit tests when requested, or the system tests
\* when a selector was given and the catalog was never consulted.
AbsentByGating ==
    \/ "compile" \notin DOMAIN status
    \/ test_unit /\ "unit_tests" \notin DOMAIN status
    \/ test_system # "" /\ ti = 0 /\ executed = <<>>

\* C19: when the run has returned its status mapping and a requested stage
\* is absent from it because of gating, the mapping holds at least one false
\* value and the process exit code is not 0.
ThmC19_AbsentNeverPassing ==
    /\ pc \in {"return", "exited"} /\ AbsentByGating => FALSE \in Values(status)
    /\ pc = "exited" /\ AbsentByGating => exit_code # 0 /\ exit_code # None

\* C19 witness: checkout failed and cleanup passed, so that compile, the unit
\* tests and the system tests are all absent and the one false value makes
\* the exit code 255.
WitC19_OnlyCheckoutAndCleanup ==
    /\ pc = "exited" /\ DOMAIN status = {"checkout", "cleanup"}
    /\ ~status["checkout"] /\ status["cleanup"]
    /\ test_unit /\ test_system = "all" /\ AbsentByGating /\ exit_code = 255

\* C20: in a run that returned with checkout and compile recorded true, the
\* unit tests requested were run and recorded, the integration test of
\* catnap or catmem was run and recorded whatever the unit tests recorded,
\* and with a selector the catalog was read and every selected system test
\* was run once, in order, and recorded, whatever the unit tests and the
\* earlier system tests recorded.
ThmC20_UnitFailureGatesNothing ==
    Finished /\ status["checkout"] /\ status["compile"] =>
        /\ test_unit =>
              /\ "unit_tests" \in DOMAIN status /\ Calls("job_test_unit_rust") = 1
              /\ libos = "catnap" =>
                    /\ "integration_tests" \in DOMAIN status
                    /\ Calls("job_test_integration_tcp_rust") = 1
              /\ libos = "catmem" =>
                    /\ "integration_tests" \in DOMAIN status
                    /\ Calls("job_test_integration_pipe_rust") = Len(RunModes)
        /\ test_system # "" =>
              /\ ti = Len(test_names) + 1
              /\ Len(executed) = Len(test_names)
              /\ Calls("job_test_system_rust") = Len(test_names)
              /\ \A i \in 1..Len(test_names) :
                    /\ executed[i].name = test_names[i]
                    /\ TestKey(test_names[i]) \in DOMAIN status

\* C20 witness: a catmem run in which the unit tests and the first of two
\* system tests failed; the pipe test and both system tests ran all the same.
WitC20_FailuresDoNotGate ==
    /\ pc = "exited" /\ libos = "catmem" /\ test_unit /\ test_system = "all"
    /\ status["checkout"] /\ status["compile"] /\ ~status["unit_tests"]
    /\ "integration_tests" \in DOMAIN status
    /\ Len(executed) = 2 /\ ~executed[1].passed /\ executed[2].passed

====
